---- MODULE Spec2Model ----
(***************************************************************************)
(* BeeLine: a form generated from an argparse parser, a Run button that    *)
(* re-parses the form's values and calls a callback, and a text log that   *)
(* also mirrors standard output.                                           *)
(*                                                                         *)
(* Text is modelled as a sequence of pieces: one-character strings for the *)
(* values a user types, longer pieces for fixed message texts, and NL for  *)
(* the newline character.  No piece other than NL contains a newline.      *)
(***************************************************************************)
EXTENDS Integers, Sequences, FiniteSets, TLC

NL == "\n"
None == <<"<None>">>

(* ------------------------------------------------------------------ *)
(* Bounds                                                               *)
(* ------------------------------------------------------------------ *)
\* Run triggers per behaviour.
MaxRuns == 2
\* Iterations of one ipsum_stream task (the code's range(60), cut short).
StreamLen == 2
\* Direct write()/flush() calls on the standard-output mirror per behaviour.
MaxWrites == 3
\* Log-producing operations per behaviour where runs, tasks and direct
\* writes are all interleaved.
MaxOps == 4

\* len(IPSUM_LINES)
NumIpsumLines == 5

(* ------------------------------------------------------------------ *)
(* Text helpers                                                         *)
(* ------------------------------------------------------------------ *)
RECURSIVE Flatten(_)
Flatten(ss) == IF ss = <<>> THEN <<>> ELSE Head(ss) \o Flatten(Tail(ss))

IsPrefix(s, t) == Len(s) <= Len(t) /\ SubSeq(t, 1, Len(s)) = s

\* Index of the first NL of s, 0 when there is none.
RECURSIVE FirstNL(_, _)
FirstNL(s, i) ==
    IF i > Len(s) THEN 0 ELSE IF s[i] = NL THEN i ELSE FirstNL(s, i + 1)

\* str.strip() == "": every character is whitespace.
IsBlank(s) == \A i \in 1..Len(s) : s[i] \in {" ", NL}

\* The newline-terminated lines of a text, and what follows the last newline.
RECURSIVE CompleteLines(_)
CompleteLines(s) ==
    LET k == FirstNL(s, 1) IN
    IF k = 0 THEN <<>>
    ELSE <<SubSeq(s, 1, k - 1)>> \o CompleteLines(SubSeq(s, k + 1, Len(s)))

RECURSIVE Remainder(_)
Remainder(s) ==
    LET k == FirstNL(s, 1) IN
    IF k = 0 THEN s ELSE Remainder(SubSeq(s, k + 1, Len(s)))

(* ------------------------------------------------------------------ *)
(* Argument schemas (argparse actions, help excluded)                   *)
(* ------------------------------------------------------------------ *)
Field(dest, type, choices, required, positional) ==
    [dest |-> dest, type |-> type, choices |-> choices,
     required |-> required, positional |-> positional]

\* The fields of get_parser().  A positional without nargs is required,
\* whatever its default.
F_positional == Field("positional", "str", <<>>, TRUE, TRUE)
F_choices    == Field("choices", "str", << <<"a">>, <<"b">>, <<"c">> >>, FALSE, FALSE)
F_input_dir  == Field("input_dir", "DirPath", <<>>, FALSE, FALSE)
F_input_file == Field("input_file", "FilePath", <<>>, FALSE, FALSE)
F_storetrue  == Field("storetrue", "store_true", <<>>, FALSE, FALSE)
F_boolean    == Field("boolean", "bool", <<>>, FALSE, FALSE)
F_string     == Field("string", "str", <<>>, FALSE, FALSE)
F_int        == Field("int", "int", <<>>, FALSE, FALSE)
F_float      == Field("float", "float", <<>>, FALSE, FALSE)

get_parser ==
    << F_positional, F_choices, F_input_dir, F_input_file, F_storetrue,
       F_boolean, F_string, F_int, F_float >>

\* Variants a caller's parser may declare.
R_choices    == Field("choices", "str", << <<"a">>, <<"b">>, <<"c">> >>, TRUE, FALSE)
R_input_dir  == Field("input_dir", "DirPath", <<>>, TRUE, FALSE)
R_input_file == Field("input_file", "FilePath", <<>>, TRUE, FALSE)
P_input_dir  == Field("input_dir", "DirPath", <<>>, TRUE, TRUE)
R_level      == Field("level", "int", << <<"1">>, <<"2">> >>, TRUE, FALSE)

Schemas ==
    { get_parser,
      << F_choices >>,
      << R_input_dir >>,
      << F_choices, F_input_dir >>,
      << R_choices >>,
      << R_input_file >>,
      << P_input_dir >>,
      << F_positional, F_input_dir >>,
      << R_level >>,
      << F_string >> }

Dests(actions) == { actions[i].dest : i \in 1..Len(actions) }
ActionOf(actions, dest) ==
    actions[CHOOSE i \in 1..Len(actions) : actions[i].dest = dest]

\* option_strings[0] of a flagged action; a positional has none.
OptionString(a) == <<"--", a.dest>>
IsFlagToken(tok) == Len(tok) = 2 /\ tok[1] = "--"

(* ------------------------------------------------------------------ *)
(* Typed values                                                         *)
(* ------------------------------------------------------------------ *)
Val(ty, v) == [ty |-> ty, v |-> v]
PyNone == Val("NoneType", <<>>)

\* pathlib: str(Path(s)).  "" is ".", trailing separators are dropped.
RECURSIVE DropTrailingSlash(_)
DropTrailingSlash(s) ==
    IF Len(s) > 1 /\ s[Len(s)] = "/"
    THEN DropTrailingSlash(SubSeq(s, 1, Len(s) - 1))
    ELSE s

PathStr(s) == IF s = <<>> THEN <<".">> ELSE DropTrailingSlash(s)

Digits == {"0", "1", "2", "3", "4", "5", "6", "7", "8", "9"}
IsNumeral(s) == s # <<>> /\ \A i \in 1..Len(s) : s[i] \in Digits

\* The action's type applied to an argument string.
TypeConv(type, s) ==
    CASE type = "DirPath"  -> [ok |-> TRUE, v |-> Val("DirPath", PathStr(s))]
      [] type = "FilePath" -> [ok |-> TRUE, v |-> Val("FilePath", PathStr(s))]
      [] type = "int"      -> [ok |-> IsNumeral(s), v |-> Val("int", s)]
      [] type = "float"    -> [ok |-> IsNumeral(s), v |-> Val("float", s \o <<".", "0">>)]
      [] type = "bool"     -> [ok |-> TRUE,
                               v |-> Val("bool", IF s = <<>> THEN <<"False">> ELSE <<"True">>)]
      [] OTHER             -> [ok |-> TRUE, v |-> Val("str", s)]

\* repr() of a parsed value.
Repr(val) ==
    CASE val.ty = "NoneType" -> <<"None">>
      [] val.ty = "str"      -> <<"'">> \o val.v \o <<"'">>
      [] val.ty = "DirPath"  -> <<"DirPath('">> \o val.v \o <<"')">>
      [] val.ty = "FilePath" -> <<"FilePath('">> \o val.v \o <<"')">>
      [] OTHER               -> val.v

Default(a) == IF a.type = "store_true" THEN Val("bool", <<"False">>) ELSE PyNone

(* ------------------------------------------------------------------ *)
(* argparse: parser.parse_args(argv)                                    *)
(* ------------------------------------------------------------------ *)
Positionals(actions) == SelectSeq(actions, LAMBDA a : a.positional)

Defaults(actions) == [d \in Dests(actions) |-> Default(ActionOf(actions, d))]

Failure(kind) == [ok |-> FALSE, kind |-> kind, ns |-> <<>>]

\* One argument string given to an action: the type conversion, then the
\* membership test against the choice set.
GetValue(a, s) ==
    LET c == TypeConv(a.type, s) IN
    IF ~c.ok THEN [ok |-> FALSE, kind |-> "type", v |-> PyNone]
    ELSE IF a.choices # <<>> /\ \A i \in 1..Len(a.choices) : a.choices[i] # c.v.v
         THEN [ok |-> FALSE, kind |-> "choice", v |-> PyNone]
         ELSE [ok |-> TRUE, kind |-> "", v |-> c.v]

\* The left-to-right consumption of argv.  seen: the dests given a value,
\* npos: the positionals consumed, extras: strings no action took.
RECURSIVE ParseLoop(_, _, _, _, _, _, _)
ParseLoop(actions, argv, i, ns, seen, npos, extras) ==
    IF i > Len(argv)
    THEN IF \E k \in 1..Len(actions) :
                actions[k].required /\ actions[k].dest \notin seen
         THEN Failure("required")
         ELSE IF extras # <<>> THEN Failure("unrecognized")
         ELSE [ok |-> TRUE, kind |-> "", ns |-> ns]
    ELSE LET tok == argv[i] IN
         IF IsFlagToken(tok)
         THEN IF tok[2] \notin Dests(actions)
              THEN ParseLoop(actions, argv, i + 1, ns, seen, npos, Append(extras, tok))
              ELSE LET a == ActionOf(actions, tok[2]) IN
                   IF a.type = "store_true"
                   THEN ParseLoop(actions, argv, i + 1,
                                  [ns EXCEPT ![a.dest] = Val("bool", <<"True">>)],
                                  seen \cup {a.dest}, npos, extras)
                   ELSE IF i + 1 > Len(argv) \/ IsFlagToken(argv[i + 1])
                        THEN Failure("expected")
                        ELSE LET r == GetValue(a, argv[i + 1]) IN
                             IF ~r.ok THEN Failure(r.kind)
                             ELSE ParseLoop(actions, argv, i + 2,
                                            [ns EXCEPT ![a.dest] = r.v],
                                            seen \cup {a.dest}, npos, extras)
         ELSE LET ps == Positionals(actions) IN
              IF npos + 1 > Len(ps)
              THEN ParseLoop(actions, argv, i + 1, ns, seen, npos, Append(extras, tok))
              ELSE LET a == ps[npos + 1]
                       r == GetValue(a, tok)
                   IN IF ~r.ok THEN Failure(r.kind)
                      ELSE ParseLoop(actions, argv, i + 1,
                                     [ns EXCEPT ![a.dest] = r.v],
                                     seen \cup {a.dest}, npos + 1, extras)

parse_args(actions, argv) ==
    ParseLoop(actions, argv, 1, Defaults(actions), {}, 0, <<>>)

\* How a failed parse is signalled.  With exit_on_error the parser prints to
\* stderr and exits (SystemExit(2)).  Without it a bad value (type conversion,
\* choice) is raised as argparse.ArgumentError, while a missing or unrecognized
\* argument still goes through parser.error() and exits (argparse up to
\* Python 3.12).
Signals(kind, exit_on_error) ==
    IF exit_on_error \/ kind \in {"required", "unrecognized"}
    THEN {"SystemExit"}
    ELSE {"ArgumentError"}

(* ------------------------------------------------------------------ *)
(* State                                                                *)
(* ------------------------------------------------------------------ *)
VARIABLES
    parser_actions,   \* parser._actions without help
    exit_on_error,    \* the parser's exit_on_error
    on_run_callback,  \* self._on_run
    started,          \* startup() has run
    arg_widgets,      \* self.arg_widgets: <<[dest, widget, value]>>
    terminal_output,  \* self.terminal_output: [widget, value]
    buffer,           \* _StdoutToTerminal._buffer
    tasks,            \* ipsum_stream tasks: iterations each has completed
    runs,             \* run triggers so far
    calls,            \* callback invocations so far
    ops,              \* log-producing operations so far
    last,             \* what the latest run trigger did
    hist,             \* everything written to the mirror, flushes marked
    forwarded         \* the lines the mirror has passed to log_to_terminal

vars == << parser_actions, exit_on_error, on_run_callback, started, arg_widgets,
           terminal_output, buffer, tasks, runs, calls, ops, last, hist, forwarded >>

FL == "<flush>"

(* ------------------------------------------------------------------ *)
(* Output sink                                                          *)
(* ------------------------------------------------------------------ *)
\* Variant: the widget's value is set to the new text instead of extended.
log_overwrite(t, text) ==
    IF ~t.widget THEN t
    ELSE [t EXCEPT !.value = text \o <<NL>>]

\* BeeLine.log_to_terminal on the terminal widget t.
log_to_terminal(t, text) ==
    IF ~t.widget THEN t
    ELSE [t EXCEPT !.value = @ \o text \o <<NL>>]

\* The mirror and the terminal it logs to, as one value handlers thread
\* through: [term, buf, fwd, hist].
Log(io, text) == [io EXCEPT !.term = log_to_terminal(@, text)]

\* The while loop of _StdoutToTerminal.write.
RECURSIVE Drain(_)
Drain(io) ==
    LET k == FirstNL(io.buf, 1) IN
    IF k = 0 THEN io
    ELSE LET line == SubSeq(io.buf, 1, k - 1)
             rest == SubSeq(io.buf, k + 1, Len(io.buf))
         IN Drain([io EXCEPT !.buf = rest,
                             !.term = log_to_terminal(@, line),
                             !.fwd = Append(@, line)])

\* Variant: the buffer is set to s instead of extended by it.
write_replacing_buffer(io, s) ==
    IF s = <<>> THEN io
    ELSE Drain([io EXCEPT !.buf = s, !.hist = @ \o s])

\* _StdoutToTerminal.write(s)
write(io, s) ==
    IF s = <<>> THEN io
    ELSE Drain([io EXCEPT !.buf = @ \o s, !.hist = @ \o s])

\* _StdoutToTerminal.flush()
flush(io) ==
    IF io.buf # <<>>
    THEN [io EXCEPT !.term = log_to_terminal(@, io.buf),
                    !.fwd = Append(@, io.buf),
                    !.buf = <<>>,
                    !.hist = Append(@, FL)]
    ELSE [io EXCEPT !.hist = Append(@, FL)]

\* print(text): the text, then the line end, as two writes.
print(io, text) == write(write(io, text), <<NL>>)

RECURSIVE WriteAll(_, _)
WriteAll(io, ws) ==
    IF ws = <<>> THEN io ELSE WriteAll(write(io, Head(ws)), Tail(ws))

IO == [term |-> terminal_output, buf |-> buffer, fwd |-> forwarded, hist |-> hist]

(* ------------------------------------------------------------------ *)
(* Callbacks a caller may pass as on_run                                *)
(* ------------------------------------------------------------------ *)
\* writes: the write() calls it makes on sys.stdout, in order; raises: the
\* class of the exception it ends with, or "none"; spawns: it schedules an
\* ipsum_stream task before returning.
Callback(name, writes, raises, spawns) ==
    [name |-> name, writes |-> writes, raises |-> raises, spawns |-> spawns]

cb_None      == Callback("None", <<>>, "none", FALSE)
cb_quiet     == Callback("quiet", <<>>, "none", FALSE)
cb_hello     == Callback("hello", << <<"hello">>, <<NL>> >>, "none", FALSE)
cb_progress  == Callback("progress",
                         << <<"w">>, <<"hello">>, <<NL>>, <<"x", NL, "y">>, <<"p">> >>,
                         "none", FALSE)
cb_boom      == Callback("boom", << <<"start">>, <<NL>> >>, "RuntimeError", FALSE)
cb_exit      == Callback("exit", <<>>, "SystemExit", FALSE)
cb_interrupt == Callback("interrupt", <<>>, "KeyboardInterrupt", FALSE)
demo_on_run  == Callback("demo_on_run",
                         << <<"Streaming ipsum every 0.5s for 30s">>, <<NL>>, <<NL>> >>,
                         "none", TRUE)

Callbacks ==
    { cb_None, cb_quiet, cb_hello, cb_progress, cb_boom, cb_exit, cb_interrupt,
      demo_on_run }

\* Subclasses of Exception among the classes a callback may raise.
ExceptionClasses == {"RuntimeError", "ValueError", "ArgumentError"}

Message(cls) == IF cls = "SystemExit" THEN "2" ELSE "boom"

(* ------------------------------------------------------------------ *)
(* Form synthesis and value collection                                  *)
(* ------------------------------------------------------------------ *)
Widget(dest, widget, value) == [dest |-> dest, widget |-> widget, value |-> value]

\* The loop of BeeLine.startup over parser_actions: a Selection for an action
\* with choices, a TextInput for a DirPath or FilePath action.
RECURSIVE StartupWidgets(_)
StartupWidgets(actions) ==
    IF actions = <<>> THEN <<>>
    ELSE LET a == Head(actions) IN
         ( IF a.choices # <<>>
           THEN << Widget(a.dest, "Selection", a.choices[1]) >>
           ELSE IF a.type \in {"DirPath", "FilePath"}
                THEN << Widget(a.dest, "TextInput", <<>>) >>
                ELSE <<>> )
         \o StartupWidgets(Tail(actions))

\* The values a user can give a control.
TypedTexts == { <<>>, <<" ">>, <<"/", "d", "/">> }
PickedPaths == { <<"/", "d", "/">> }

ControlValues(actions, w) ==
    IF w.widget = "Selection"
    THEN LET c == ActionOf(actions, w.dest).choices
         IN {None} \cup { c[i] : i \in 1..Len(c) }
    ELSE TypedTexts

\* value is None or (isinstance(value, str) and value.strip() == "")
IsEmptyValue(v) == v = None \/ IsBlank(v)

\* The loop of BeeLine.parse_arguments that builds argv.
RECURSIVE BuildArgv(_, _)
BuildArgv(actions, widgets) ==
    IF widgets = <<>> THEN <<>>
    ELSE LET w == Head(widgets)
             action == ActionOf(actions, w.dest)
         IN ( IF IsEmptyValue(w.value) /\ ~action.required
              THEN <<>>
              ELSE ( IF action.positional THEN <<>> ELSE << OptionString(action) >> )
                   \o << IF w.value # None THEN w.value ELSE <<>> >> )
            \o BuildArgv(actions, Tail(widgets))

\* BeeLine.parse_arguments
parse_arguments(actions, widgets) == parse_args(actions, BuildArgv(actions, widgets))

(* ------------------------------------------------------------------ *)
(* Run dispatcher                                                       *)
(* ------------------------------------------------------------------ *)
\* The classes on_run's first handler catches: except (SystemExit, ValueError).
CaughtByValidation == {"SystemExit", "ValueError"}

\* Variant: except ValueError.
CaughtOnlyValueError(cls) == cls = "ValueError"

\* The classes on_run's second handler catches: except Exception.
CaughtByCallbackGuard(cls) == cls \in ExceptionClasses

\* Variant: the message without its trailing newline.
ValidationErrorLine(e) == <<"Validation error: ", e>>

ValidationErrorText(e) == <<"Validation error: ", e, NL>>

HeaderText == <<"[ts] Run pressed. Parsed arguments:">>

FieldText(k, v) == <<"  ", k, ": ">> \o Repr(v)

\* for k, v in vars(args).items(): the namespace holds the dests in the
\* order of the parser's actions.
RECURSIVE LogFields(_, _, _)
LogFields(io, actions, ns) ==
    IF actions = <<>> THEN io
    ELSE LogFields(Log(io, FieldText(Head(actions).dest, ns[Head(actions).dest])),
                   Tail(actions), ns)

CallbackErrorText(e) == <<"Error in on_run callback: ", e, NL>>

\* traceback.format_exc()
TracebackText(cls, e) ==
    <<"Traceback (most recent call last):", NL, "  File \"app.py\", in on_run", NL,
      cls, ": ", e, NL>>

NoCallbackText == <<"No on_run callback set. Nothing to execute.", NL>>

\* The lines on_run logs before it calls the callback.
LogParsed(io, actions, ns) ==
    Log(LogFields(Log(io, HeaderText), actions, ns), <<>>)

\* self._on_run(self, args) inside try/except Exception.
CallGuarded(io, cb) ==
    LET io2 == WriteAll(io, cb.writes) IN
    IF cb.raises = "none"
    THEN [io |-> io2, outcome |-> "returned"]
    ELSE IF CaughtByCallbackGuard(cb.raises)
         THEN [io |-> Log(Log(io2, CallbackErrorText(Message(cb.raises))),
                          TracebackText(cb.raises, Message(cb.raises))),
               outcome |-> "callback_error"]
         ELSE [io |-> io2, outcome |-> "callback_raised"]

\* Variant: the callback is called before the parsed arguments are logged.
on_run_callback_first(io, actions, res, sig, cb) ==
    IF ~res.ok
    THEN IF sig \in CaughtByValidation
         THEN [io |-> Log(io, ValidationErrorText(Message(sig))),
               outcome |-> "validation_error", called |-> FALSE]
         ELSE [io |-> io, outcome |-> "validation_raised", called |-> FALSE]
    ELSE IF cb # cb_None
         THEN LET r == CallGuarded(io, cb)
              IN [io |-> LogParsed(r.io, actions, res.ns), outcome |-> r.outcome,
                  called |-> TRUE]
         ELSE [io |-> Log(LogParsed(io, actions, res.ns), NoCallbackText),
               outcome |-> "no_callback", called |-> FALSE]

\* BeeLine.on_run: res is what parse_arguments did, sig the class it raised
\* when it failed.  outcome "validation_raised" and "callback_raised": the
\* exception left on_run.
on_run(io, actions, res, sig, cb) ==
    IF ~res.ok
    THEN IF sig \in CaughtByValidation
         THEN [io |-> Log(io, ValidationErrorText(Message(sig))),
               outcome |-> "validation_error", called |-> FALSE]
         ELSE [io |-> io, outcome |-> "validation_raised", called |-> FALSE]
    ELSE LET io1 == LogParsed(io, actions, res.ns) IN
         IF cb # cb_None
         THEN LET r == CallGuarded(io1, cb)
              IN [io |-> r.io, outcome |-> r.outcome, called |-> TRUE]
         ELSE [io |-> Log(io1, NoCallbackText), outcome |-> "no_callback",
               called |-> FALSE]

(* ------------------------------------------------------------------ *)
(* Background task of demo_on_run                                       *)
(* ------------------------------------------------------------------ *)
\* The line iteration i of task k prints; the task's number and the iteration
\* stand for the timestamp that tells the real lines apart.
TaskText(k, i) ==
    << "task " \o ToString(k) \o " [ts " \o ToString(i) \o "] ipsum "
       \o ToString(i % NumIpsumLines) >>

FinishedText(k) == << "task " \o ToString(k) \o " Ipsum stream finished." >>

\* One wake-up of ipsum_stream: from the return of asyncio.sleep to the next
\* await, or to the end of the coroutine after the last iteration.
ipsum_stream(io, k, i) ==
    LET io1 == print(io, TaskText(k, i)) IN
    IF i + 1 < StreamLen THEN io1
    ELSE print(print(io1, <<>>), FinishedText(k))

(* ------------------------------------------------------------------ *)
(* Initial states                                                       *)
(* ------------------------------------------------------------------ *)
Config(actions, eoe, cb) == [actions |-> actions, exit_on_error |-> eoe, cb |-> cb]

Configs ==
    { Config(a, e, cb_quiet) : a \in Schemas, e \in BOOLEAN }
    \cup { Config(a, TRUE, c) : a \in { << F_choices >>, << R_level >> },
                                 c \in Callbacks \ { demo_on_run } }
    \cup { Config(<< F_string >>, TRUE, demo_on_run) }

Idle ==
    [n |-> 0, outcome |-> "idle", called |-> FALSE, before |-> 0, after |-> 0,
     values |-> <<>>, ok |-> FALSE, kind |-> "", ns |-> <<>>, sig |-> "none",
     bufBefore |-> <<>>]

\* BeeLine.__init__
Constructed(cfg) ==
    /\ parser_actions = cfg.actions
    /\ exit_on_error = cfg.exit_on_error
    /\ on_run_callback = cfg.cb
    /\ started = FALSE
    /\ arg_widgets = <<>>
    /\ terminal_output = [widget |-> FALSE, value |-> <<>>]
    /\ buffer = <<>>
    /\ tasks = <<>>
    /\ runs = 0
    /\ calls = 0
    /\ ops = 0
    /\ last = Idle
    /\ hist = <<>>
    /\ forwarded = <<>>

Init == \E cfg \in Configs : Constructed(cfg)

(* ------------------------------------------------------------------ *)
(* Actions                                                              *)
(* ------------------------------------------------------------------ *)
\* BeeLine.startup
Startup ==
    /\ ~started
    /\ started' = TRUE
    /\ arg_widgets' = StartupWidgets(parser_actions)
    /\ terminal_output' = [widget |-> TRUE, value |-> <<>>]
    /\ buffer' = <<>>
    /\ UNCHANGED << parser_actions, exit_on_error, on_run_callback, tasks, runs,
                    calls, ops, last, hist, forwarded >>

\* The user selects an item or types into a path field.
SetValue(i, v) ==
    /\ started
    /\ i \in DOMAIN arg_widgets
    /\ v \in ControlValues(parser_actions, arg_widgets[i])
    /\ v # arg_widgets[i].value
    /\ arg_widgets' = [arg_widgets EXCEPT ![i].value = v]
    /\ UNCHANGED << parser_actions, exit_on_error, on_run_callback, started,
                    terminal_output, buffer, tasks, runs, calls, ops, last, hist,
                    forwarded >>

\* on_browse / show_dialog: the dialog returns a path, or None when dismissed.
Browse(i, path) ==
    /\ started
    /\ i \in DOMAIN arg_widgets
    /\ arg_widgets[i].widget = "TextInput"
    /\ arg_widgets' = IF path # None
                      THEN [arg_widgets EXCEPT ![i].value = PathStr(path)]
                      ELSE arg_widgets
    /\ UNCHANGED << parser_actions, exit_on_error, on_run_callback, started,
                    terminal_output, buffer, tasks, runs, calls, ops, last, hist,
                    forwarded >>

\* The Run button: BeeLine.on_run, with the callback's synchronous part.
OnRun ==
    /\ started
    /\ runs < MaxRuns
    /\ LET res == parse_arguments(parser_actions, arg_widgets) IN
       \E sig \in ( IF res.ok THEN {"none"} ELSE Signals(res.kind, exit_on_error) ) :
          LET r == on_run(IO, parser_actions, res, sig, on_run_callback)
              spawned == r.outcome = "returned" /\ on_run_callback.spawns
          IN /\ terminal_output' = r.io.term
             /\ buffer' = r.io.buf
             /\ forwarded' = r.io.fwd
             /\ hist' = r.io.hist
             /\ tasks' = IF spawned THEN Append(tasks, 0) ELSE tasks
             /\ calls' = IF r.called THEN calls + 1 ELSE calls
             /\ last' = [n |-> runs + 1, outcome |-> r.outcome, called |-> r.called,
                         before |-> Len(terminal_output.value),
                         after |-> Len(r.io.term.value),
                         values |-> arg_widgets, ok |-> res.ok, kind |-> res.kind,
                         ns |-> res.ns, sig |-> sig, bufBefore |-> buffer]
    /\ runs' = runs + 1
    /\ ops' = ops + 1
    /\ UNCHANGED << parser_actions, exit_on_error, on_run_callback, started,
                    arg_widgets >>

\* Variant: the task is suspended between writing a line's text and writing
\* its newline.
TaskStepSplit(k) ==
    /\ k \in DOMAIN tasks
    /\ tasks[k] < StreamLen
    /\ LET text == TaskText(k, tasks[k])
           mid == buffer # <<>> /\ buffer[Len(buffer)] = text[1]
           io1 == write(IO, <<NL>>)
           io == IF ~mid THEN write(IO, text)
                 ELSE IF tasks[k] + 1 < StreamLen THEN io1
                 ELSE print(print(io1, <<>>), FinishedText(k))
       IN /\ terminal_output' = io.term
          /\ buffer' = io.buf
          /\ forwarded' = io.fwd
          /\ hist' = io.hist
          /\ tasks' = IF mid THEN [tasks EXCEPT ![k] = @ + 1] ELSE tasks
    /\ ops' = ops + 1
    /\ UNCHANGED << parser_actions, exit_on_error, on_run_callback, started,
                    arg_widgets, runs, calls, last >>

\* The event loop resumes task k after its sleep.
TaskStep(k) ==
    /\ k \in DOMAIN tasks
    /\ tasks[k] < StreamLen
    /\ LET io == ipsum_stream(IO, k, tasks[k])
       IN /\ terminal_output' = io.term
          /\ buffer' = io.buf
          /\ forwarded' = io.fwd
          /\ hist' = io.hist
    /\ tasks' = [tasks EXCEPT ![k] = @ + 1]
    /\ ops' = ops + 1
    /\ UNCHANGED << parser_actions, exit_on_error, on_run_callback, started,
                    arg_widgets, runs, calls, last >>

\* Some code calls sys.stdout.write(s).
StdoutWrite(s) ==
    /\ started
    /\ LET io == write(IO, s)
       IN /\ terminal_output' = io.term
          /\ buffer' = io.buf
          /\ forwarded' = io.fwd
          /\ hist' = io.hist
    /\ ops' = ops + 1
    /\ UNCHANGED << parser_actions, exit_on_error, on_run_callback, started,
                    arg_widgets, tasks, runs, calls, last >>

\* Some code calls sys.stdout.flush().
StdoutFlush ==
    /\ started
    /\ LET io == flush(IO)
       IN /\ terminal_output' = io.term
          /\ buffer' = io.buf
          /\ forwarded' = io.fwd
          /\ hist' = io.hist
    /\ ops' = ops + 1
    /\ UNCHANGED << parser_actions, exit_on_error, on_run_callback, started,
                    arg_widgets, tasks, runs, calls, last >>

Next ==
    \/ Startup
    \/ \E i \in DOMAIN arg_widgets :
          \E v \in ControlValues(parser_actions, arg_widgets[i]) : SetValue(i, v)
    \/ \E i \in DOMAIN arg_widgets : \E p \in PickedPaths \cup {None} : Browse(i, p)
    \/ OnRun
    \/ \E k \in DOMAIN tasks : TaskStep(k)

Spec == Init /\ [][Next]_vars

(* ------------------------------------------------------------------ *)
(* The standard-output mirror alone                                     *)
(* ------------------------------------------------------------------ *)
WriteStrings ==
    { <<>>, <<"a">>, <<"b", NL>>, <<NL>>, <<"a", NL, "b">>, <<NL, NL, "c">> }

\* A started form nobody has touched.
InitStdout ==
    /\ parser_actions = << F_choices >>
    /\ exit_on_error = TRUE
    /\ on_run_callback = cb_quiet
    /\ started = TRUE
    /\ arg_widgets = StartupWidgets(<< F_choices >>)
    /\ terminal_output = [widget |-> TRUE, value |-> <<>>]
    /\ buffer = <<>>
    /\ tasks = <<>>
    /\ runs = 0
    /\ calls = 0
    /\ ops = 0
    /\ last = Idle
    /\ hist = <<>>
    /\ forwarded = <<>>

DirectWrite == \E s \in WriteStrings : ops < MaxWrites /\ StdoutWrite(s)

DirectFlush == ops < MaxWrites /\ StdoutFlush

NextStdout == DirectWrite \/ DirectFlush

SpecStdout == InitStdout /\ [][NextStdout]_vars

(* ------------------------------------------------------------------ *)
(* Runs, tasks and direct writes interleaved                            *)
(* ------------------------------------------------------------------ *)
ConfigsAll ==
    { Config(<< R_level >>, TRUE, cb_boom),
      Config(<< R_input_dir >>, TRUE, cb_None),
      Config(<< F_string >>, TRUE, demo_on_run) }

InitAll == \E cfg \in ConfigsAll : Constructed(cfg)

BudgetRun == ops < MaxOps /\ OnRun

BudgetTask == \E k \in DOMAIN tasks : ops < MaxOps /\ TaskStep(k)

BudgetWrite == \E s \in { <<"a">>, <<NL>> } : ops < MaxOps /\ StdoutWrite(s)

BudgetFlush == ops < MaxOps /\ StdoutFlush

NextAll ==
    \/ Startup
    \/ \E i \in DOMAIN arg_widgets :
          \E v \in ControlValues(parser_actions, arg_widgets[i]) : SetValue(i, v)
    \/ \E i \in DOMAIN arg_widgets : \E p \in PickedPaths \cup {None} : Browse(i, p)
    \/ BudgetRun
    \/ BudgetTask
    \/ BudgetWrite
    \/ BudgetFlush

SpecAll == InitAll /\ [][NextAll]_vars

(* ------------------------------------------------------------------ *)
(* Properties                                                           *)
(* ------------------------------------------------------------------ *)
Pieces(text) == { text[i] : i \in DOMAIN text }

\* The lines of the log, and the text and lines the latest run trigger added.
LogLines == CompleteLines(terminal_output.value)
RunText == SubSeq(terminal_output.value, last.before + 1, last.after)
RunLines == CompleteLines(RunText)

Ran == last.n > 0

FieldOf(dest) == ActionOf(parser_actions, dest)

\* C1: after startup every non-help field of the schema has exactly one
\* control in arg_widgets, and every control belongs to a field.
C1_OneControlPerField ==
    started =>
        /\ \A i \in 1..Len(parser_actions) :
              Cardinality({ j \in DOMAIN arg_widgets :
                              arg_widgets[j].dest = parser_actions[i].dest }) = 1
        /\ \A j \in DOMAIN arg_widgets : arg_widgets[j].dest \in Dests(parser_actions)

\* C2: a run trigger with a required field's control empty (None, "" or
\* whitespace) fails validation and does not invoke the callback.
C2_RequiredEmptyFails ==
    \A j \in DOMAIN last.values :
        ( /\ Ran
          /\ FieldOf(last.values[j].dest).required
          /\ IsEmptyValue(last.values[j].value) )
        => ( ~last.ok /\ ~last.called )

\* A control value that satisfies its field's constraints: present, not
\* blank, and one of the choices when the field has choices.
Satisfies(w) ==
    /\ ~IsEmptyValue(w.value)
    /\ LET c == FieldOf(w.dest).choices
       IN c = <<>> \/ \E i \in 1..Len(c) : c[i] = w.value

\* C3: when every control holds a value that satisfies its field, the re-parse
\* succeeds and maps every field of the schema to its control's value after
\* the field's type conversion.
C3_RoundTrip ==
    ( Ran /\ \A j \in DOMAIN last.values : Satisfies(last.values[j]) )
    => /\ last.ok
       /\ \A i \in 1..Len(parser_actions) :
             \E j \in DOMAIN last.values :
                /\ last.values[j].dest = parser_actions[i].dest
                /\ last.ns[parser_actions[i].dest]
                     = TypeConv(parser_actions[i].type, last.values[j].value).v

\* What C4 says of a run whose callback ended with an exception: the callback
\* was reached, the exception did not leave on_run, and the run's log holds a
\* line with the message and, after it, the trace.
CallbackErrorLogged ==
    /\ last.called
    /\ last.outcome = "callback_error"
    /\ \E i, j \in DOMAIN RunLines :
          /\ i < j
          /\ RunLines[i] = <<"Error in on_run callback: ", Message(on_run_callback.raises)>>
          /\ RunLines[j] = <<"Traceback (most recent call last):">>
    /\ RunLines[1] = HeaderText

C5_ParseFailureReported ==
    ( Ran /\ ~last.ok )
    => /\ last.outcome = "validation_error"
       /\ ~last.called
       /\ RunLines # <<>>

\* C6 as stated: a caught validation failure adds exactly one line to the log,
\* and no blank line.
C6_ExactlyOneLine ==
    last.outcome = "validation_error"
    => /\ Len(RunLines) = 1
       /\ \A i \in DOMAIN RunLines : RunLines[i] # <<>>

\* C6 amended: a caught validation failure adds the validation-error line
\* followed by one blank line, and nothing else.
C6_ErrorLineThenBlankLine ==
    last.outcome = "validation_error"
    => /\ RunLines = << <<"Validation error: ", "2">>, <<>> >>
       /\ Remainder(RunText) = <<>>
       /\ ~last.called

C6_ValidationFailed ==
    last.outcome = "validation_error" /\ last.kind = "choice"

\* What a history of writes and flushes must have forwarded, read piece by
\* piece: a newline ends a segment (empty or not), a flush ends a non-empty
\* one, and what follows the last of them is pending.
RECURSIVE Scan(_, _, _)
Scan(h, cur, out) ==
    IF h = <<>> THEN [segments |-> out, pending |-> cur]
    ELSE IF Head(h) = NL THEN Scan(Tail(h), <<>>, Append(out, cur))
    ELSE IF Head(h) = FL
         THEN Scan(Tail(h), <<>>, IF cur = <<>> THEN out ELSE Append(out, cur))
         ELSE Scan(Tail(h), Append(cur, Head(h)), out)

RECURSIVE JoinLines(_)
JoinLines(ls) == IF ls = <<>> THEN <<>> ELSE Head(ls) \o <<NL>> \o JoinLines(Tail(ls))

\* C7: after any sequence of write and flush calls, the mirror has forwarded
\* exactly the newline-terminated segments of what was written (and the
\* flushed partial segments), once each and in order, the text after the last
\* newline is held in the buffer, and the log holds the forwarded lines.
C7_MirrorForwardsCompleteLines ==
    /\ forwarded = Scan(hist, <<>>, <<>>).segments
    /\ buffer = Scan(hist, <<>>, <<>>).pending
    /\ terminal_output.value = JoinLines(forwarded)

C7_JoinedLineAndPending ==
    /\ \E i \in DOMAIN forwarded : forwarded[i] = <<"a", "b">>
    /\ buffer # <<>>

\* The lines on_run logs for the parsed arguments: the header, one line per
\* field, a blank line.
DispatcherLines ==
    << HeaderText >>
    \o [ i \in 1..Len(parser_actions) |->
           FieldText(parser_actions[i].dest, last.ns[parser_actions[i].dest]) ]
    \o << <<>> >>

TaskPieces(k) ==
    { TaskText(k, i)[1] : i \in 0..(StreamLen - 1) } \cup { FinishedText(k)[1] }

LinesOf(k) == SelectSeq(LogLines, LAMBDA l : Pieces(l) \cap TaskPieces(k) # {})

EmittedBy(k) ==
    [ i \in 1..tasks[k] |-> TaskText(k, i - 1) ]
    \o ( IF tasks[k] = StreamLen THEN << FinishedText(k) >> ELSE <<>> )

\* C9: however the tasks and the dispatcher are interleaved, the log lines
\* holding text of a task are exactly the lines that task has emitted, whole,
\* once each and in its order; no line holds text of two tasks.
C9_TaskLinesWhole ==
    \A k \in DOMAIN tasks : LinesOf(k) = EmittedBy(k)

C9_TasksInterleaved ==
    /\ Len(tasks) >= 2
    /\ \E a, b, c \in DOMAIN LogLines :
          /\ a < b /\ b < c
          /\ LogLines[a] = TaskText(1, 0)
          /\ LogLines[b] = TaskText(2, 0)
          /\ LogLines[c] = TaskText(1, 1)

\* C10: no step shortens or rewrites the log: its content before a step is a
\* prefix of its content after.
C10_LogAppendOnly ==
    [][IsPrefix(terminal_output.value, terminal_output'.value)]_vars

C10_MixedHistory ==
    /\ last.n = 2
    /\ last.outcome = "validation_error"
    /\ calls = 1
    /\ FL \in Pieces(hist)
    /\ forwarded # <<>>

====
